---- MODULE Spec2Model ----
(***************************************************************************)
(* mpsync (src/mpsync.py): a watchdog thread enqueues filesystem events,   *)
(* the MPSync worker thread (run) waits for a quiet period, connects to    *)
(* the board, drains the queue and disconnects.                            *)
(*                                                                         *)
(* Time is counted in ticks of 0.1 s.  The code reads the clock only in    *)
(* "time.time() - self._ts > waiting_time" and in time.sleep, so the model *)
(* keeps the differences instead of the absolute clock: idle is            *)
(* time.time() - self._ts, saturated just above WAITING_TIME (every larger *)
(* value takes the same branch), and sleepLeft is what remains of the      *)
(* worker's current time.sleep.                                            *)
(***************************************************************************)
EXTENDS Naturals, Sequences, FiniteSets

(* ------------------------------ bounds -------------------------------- *)
\* number of filesystem events the watcher delivers in one run
MaxEvents == 2
\* longest watched-root string and longest path below it (path translation)
MaxRootLen == 2
MaxSuffixLen == 3

(* ------------------------- program constants -------------------------- *)
CONNECT_TRIES == 5
\* WAITING_TIME = 0.5 s, in ticks
WAITING_TIME == 5
\* time.sleep(5) after a failed connect, in ticks
BACKOFF == 50
\* time.sleep(0.1) at the end of every loop iteration, in ticks
POLL == 1

IdleCap == WAITING_TIME + 1

Actions == {"CREATE", "DELETE", "MOVE", "MODIFY"}
\* what os.path.isfile / os.path.isdir can say about a path when it is asked
FsKinds == {"file", "dir", "missing"}
Chars == {"/", "r", "a"}

VARIABLES
    mpc,        \* main thread: "new", "ready", "syncing", "stopped", "exited"
    watching,   \* the watchdog observer is started and not stopped
    wpc,        \* observer thread: "idle", or "stamp" between q.put and _ts =
    _running,   \* self._running
    _q,         \* self._q: sequence of [id, action]
    idle,       \* time.time() - self._ts, saturated at IdleCap
    pc,         \* worker thread position in run()
    sleepLeft,  \* ticks left of the worker's time.sleep
    isOpen,     \* self.mpfs._MpFileShell__is_open()
    tries,      \* do_open calls made by the current _mpconnect call
    ret,        \* _mpconnect has returned: "ok", "fail" (the for loop ran
                \* out), "noport" (the port check failed); else "none"
    trace,      \* everything the worker did, in order
    opFailed,   \* a remote call of the current batch reported failure
    cycle,      \* number of _mpconnect calls that returned True
    nextId,     \* id of the next event to be enqueued
    burstOpen,  \* no time has passed since the last q.put
    sameBurst,  \* sameBurst[i]: the i-th queued event was enqueued with no
                \* time between it and the q.put before it (a burst is a
                \* run of events enqueued with no tick between them)
    batchEnd,   \* while the drain loop runs: the id of the last event
                \* that was queued when the loop began; else 0
    inFlightAtStop, \* stop_sync was called while a batch was in flight
    folderOk,   \* the folder given to MPSync exists and is a directory
    folder,     \* path translation: self.folder
    file,       \* path translation: the local path
    dst,        \* path translation: the remote path handed to mpfs
    rop         \* path translation: the remote operation called

mainVars == <<mpc, watching, wpc, _running, _q, idle, pc, sleepLeft, isOpen,
              tries, ret, trace, opFailed, cycle, nextId, burstOpen, sameBurst, batchEnd,
              inFlightAtStop, folderOk>>
pathVars == <<folder, file, dst, rop>>
vars == <<mainVars, opFailed, pathVars>>

(* --------------------------- path translation ------------------------- *)
\* Python's str.replace(old, new) for a non-empty old: every non-overlapping
\* occurrence, scanning from the left
RECURSIVE replace(_, _, _)
replace(s, old, new) ==
    IF Len(s) < Len(old) THEN s
    ELSE IF SubSeq(s, 1, Len(old)) = old
         THEN new \o replace(SubSeq(s, Len(old) + 1, Len(s)), old, new)
         ELSE <<Head(s)>> \o replace(Tail(s), old, new)

\* dst = file.replace(self.folder, "")
translate(root, p) == replace(p, root, <<>>)

(* ------------------------------ dispatch ------------------------------ *)
\* one entry of trace: a handler called for event ev (kind is what the
\* filesystem told it about the path it asked about, "-" when it did not
\* ask), a remote call made for it, the "not (yet) supported" print, or the
\* _mpdisconnect call of run()
Entry(what, ev, kind) == [what |-> what, ev |-> ev, cyc |-> cycle, kind |-> kind]

RemoteOps == {"put", "mkdir", "rm"}
Handlers == {"perform_create", "perform_delete", "perform_move", "perform_modify"}

\* The helpers and handlers return what they append to trace (log), whether
\* a remote call reported failure (failed; the code ignores the result) and
\* whether they raise (raised).
_copy_file(ev, ok) == [log |-> <<Entry("put", ev, "-")>>, failed |-> ~ok]
_create_folder(ev, ok) == [log |-> <<Entry("mkdir", ev, "-")>>, failed |-> ~ok]
_delete(ev, ok) == [log |-> <<Entry("rm", ev, "-")>>, failed |-> ~ok]

perform_create(ev, kind, ok1) ==
    LET called == <<Entry("perform_create", ev, kind)>>
    IN  IF kind = "file"
        THEN [log |-> called \o _copy_file(ev, ok1).log,
              failed |-> _copy_file(ev, ok1).failed, raised |-> FALSE]
        \* elif os.path.isfolder(src_path): os.path has no isfolder, so
        \* evaluating the condition raises AttributeError
        ELSE [log |-> called, failed |-> FALSE, raised |-> TRUE]

perform_delete(ev, ok1) ==
    [log |-> <<Entry("perform_delete", ev, "-")>> \o _delete(ev, ok1).log,
     failed |-> _delete(ev, ok1).failed, raised |-> FALSE]

perform_move_any_existing(ev, kind, ok1, ok2) ==
    LET called == <<Entry("perform_move", ev, kind)>>
    IN  IF kind # "missing"
        THEN [log |-> called \o _delete(ev, ok1).log \o _copy_file(ev, ok2).log,
              failed |-> _delete(ev, ok1).failed \/ _copy_file(ev, ok2).failed,
              raised |-> FALSE]
        ELSE [log |-> called \o <<Entry("unsupported", ev, "-")>>,
              failed |-> FALSE, raised |-> FALSE]

\* a remote call of perform_move, marked with the path it is given: the
\* event's src_path or its dest_path (the other handlers have one path only)
on_path(r, which) == <<[r.log[1] EXCEPT !.kind = which]>>

perform_move_put_first(ev, kind, ok1, ok2) ==
    LET called == <<Entry("perform_move", ev, kind)>>
    IN  IF kind = "file"
        THEN [log |-> called \o on_path(_copy_file(ev, ok2), "dest_path")
                             \o on_path(_delete(ev, ok1), "src_path"),
              failed |-> _delete(ev, ok1).failed \/ _copy_file(ev, ok2).failed,
              raised |-> FALSE]
        ELSE [log |-> called \o <<Entry("unsupported", ev, "-")>>,
              failed |-> FALSE, raised |-> FALSE]

\* isfile is asked about dest_path; _delete(src_path), _copy_file(dest_path)
perform_move(ev, kind, ok1, ok2) ==
    LET called == <<Entry("perform_move", ev, kind)>>
    IN  IF kind = "file"
        THEN [log |-> called \o on_path(_delete(ev, ok1), "src_path")
                             \o on_path(_copy_file(ev, ok2), "dest_path"),
              failed |-> _delete(ev, ok1).failed \/ _copy_file(ev, ok2).failed,
              raised |-> FALSE]
        ELSE [log |-> called \o <<Entry("unsupported", ev, "-")>>,
              failed |-> FALSE, raised |-> FALSE]

perform_modify_always_puts(ev, kind, ok1) ==
    [log |-> <<Entry("perform_modify", ev, kind)>> \o _copy_file(ev, ok1).log,
     failed |-> _copy_file(ev, ok1).failed, raised |-> FALSE]

perform_modify(ev, kind, ok1) ==
    LET called == <<Entry("perform_modify", ev, kind)>>
    IN  IF kind = "file"
        THEN [log |-> called \o _copy_file(ev, ok1).log,
              failed |-> _copy_file(ev, ok1).failed, raised |-> FALSE]
        ELSE [log |-> called, failed |-> FALSE, raised |-> FALSE]

\* the if/elif chain of run()
dispatch(item, kind, ok1, ok2) ==
    IF item.action = "CREATE" THEN perform_create(item.id, kind, ok1)
    ELSE IF item.action = "DELETE" THEN perform_delete(item.id, ok1)
    ELSE IF item.action = "MOVE" THEN perform_move(item.id, kind, ok1, ok2)
    ELSE IF item.action = "MODIFY" THEN perform_modify(item.id, kind, ok1)
    ELSE [log |-> <<>>, failed |-> FALSE, raised |-> FALSE]

\* q.get(False): the item taken and the queue left
q_get_last(queue) ==
    [item |-> queue[Len(queue)], rest |-> SubSeq(queue, 1, Len(queue) - 1)]
q_get_peek(queue) == [item |-> Head(queue), rest |-> queue]
q_get(queue) == [item |-> Head(queue), rest |-> Tail(queue)]
\* q.put(item)
q_put(queue, item) == Append(queue, item)

(* -------------------------------- Init -------------------------------- *)
PathIdle == /\ folder = <<>>
            /\ file = <<>>
            /\ dst = <<>>
            /\ rop = "none"

Init ==
    /\ mpc = "new"
    /\ watching = FALSE
    /\ wpc = "idle"
    /\ _running = FALSE
    /\ _q = <<>>
    /\ idle = IdleCap          \* _ts = 0: the epoch is long ago
    /\ pc = "unstarted"
    /\ sleepLeft = 0
    /\ isOpen = FALSE
    /\ tries = 0
    /\ ret = "none"
    /\ trace = <<>>
    /\ opFailed = FALSE
    /\ cycle = 0
    /\ nextId = 1
    /\ burstOpen = FALSE
    /\ sameBurst = <<>>
    /\ batchEnd = 0
    /\ inFlightAtStop = FALSE
    /\ folderOk \in BOOLEAN
    /\ PathIdle

(* ----------------------------- main thread ---------------------------- *)
\* _create_watchdog: sys.exit(1) unless the folder is an existing directory,
\* else the Observer is created and scheduled and __init__ returns
after_create_watchdog_no_exit(ok) == "ready"
after_create_watchdog(ok) == IF ok THEN "ready" ELSE "exited"

\* MPSync.__init__, which ends with _create_watchdog
Construct ==
    /\ mpc = "new"
    /\ mpc' = after_create_watchdog(folderOk)
    /\ UNCHANGED <<watching, wpc, _running, _q, idle, pc, sleepLeft, isOpen,
                   tries, ret, trace, cycle, nextId, burstOpen, sameBurst, batchEnd,
                   inFlightAtStop, opFailed, folderOk, pathVars>>

start_sync ==
    /\ mpc = "ready"
    /\ mpc' = "syncing"
    /\ watching' = TRUE
    /\ _running' = TRUE
    /\ pc' = "loop"
    /\ UNCHANGED <<wpc, _q, idle, sleepLeft, isOpen, tries, ret, trace, cycle,
                   nextId, burstOpen, sameBurst, batchEnd, inFlightAtStop, opFailed, folderOk, pathVars>>

\* a batch is in flight: the session was acquired and not yet released
InFlight == pc \in {"drain", "release"}

stop_sync ==
    /\ mpc = "syncing"
    /\ mpc' = "stopped"
    /\ watching' = FALSE
    /\ _running' = FALSE
    /\ inFlightAtStop' = InFlight
    /\ UNCHANGED <<wpc, _q, idle, pc, sleepLeft, isOpen, tries, ret, trace,
                   cycle, nextId, burstOpen, sameBurst, batchEnd, opFailed, folderOk, pathVars>>

(* --------------------------- observer thread -------------------------- *)
\* first statement of every _on_* callback: self._q.put((action, params))
Enqueue(action) ==
    /\ watching
    /\ wpc = "idle"
    /\ nextId <= MaxEvents
    /\ _q' = q_put(_q, [id |-> nextId, action |-> action])
    /\ nextId' = nextId + 1
    /\ wpc' = "stamp"
    /\ sameBurst' = Append(sameBurst, burstOpen)
    /\ burstOpen' = TRUE
    /\ UNCHANGED <<mpc, watching, _running, idle, pc, sleepLeft, isOpen, tries,
                   ret, trace, cycle, batchEnd, inFlightAtStop, opFailed, folderOk, pathVars>>

_on_created == Enqueue("CREATE")
_on_deleted == Enqueue("DELETE")
_on_moved == Enqueue("MOVE")
_on_modified == Enqueue("MODIFY")

\* second statement of every _on_* callback: self._ts = time.time()
StampTs ==
    /\ wpc = "stamp"
    /\ idle' = 0
    /\ wpc' = "idle"
    /\ UNCHANGED <<mpc, watching, _running, _q, pc, sleepLeft, isOpen, tries,
                   ret, trace, cycle, nextId, burstOpen, sameBurst, batchEnd,
                   inFlightAtStop, opFailed, folderOk, pathVars>>

(* ---------------------------- worker thread --------------------------- *)
workerKeeps == <<mpc, watching, wpc, _running, idle, nextId, burstOpen,
                 inFlightAtStop, folderOk, pathVars>>

\* while self._running: if time.time() - self._ts > waiting_time: ... else
\* time.sleep(0.1).  The two reads are one step: a stop_sync between them
\* has the effect of one right after them.
gate_next == IF idle > WAITING_TIME THEN "empty" ELSE "sleep"

RunLoop ==
    /\ pc = "loop"
    /\ IF ~_running
       THEN pc' = "done" /\ sleepLeft' = sleepLeft
       ELSE /\ pc' = gate_next
            /\ sleepLeft' = IF gate_next = "sleep" THEN POLL ELSE sleepLeft
    /\ UNCHANGED <<workerKeeps, batchEnd, sameBurst, _q, isOpen, tries, ret, trace, cycle, opFailed>>

\* if not q.empty(): ... else time.sleep(0.1)
RunCheckQueue ==
    /\ pc = "empty"
    /\ IF _q # <<>>
       THEN pc' = "connect" /\ sleepLeft' = sleepLeft
       ELSE pc' = "sleep" /\ sleepLeft' = POLL
    /\ UNCHANGED <<workerKeeps, batchEnd, sameBurst, _q, isOpen, tries, ret, trace, cycle, opFailed>>

\* _mpconnect up to the for loop: already open, or the port is missing
\* (portOk: the port path exists and is not a directory)
mpconnect_entry_no_early_return(open, portOk) ==
    IF ~portOk THEN [pc |-> "returned", ret |-> "noport"]
    ELSE [pc |-> "try", ret |-> "none"]
mpconnect_entry(open, portOk) ==
    IF open THEN [pc |-> "returned", ret |-> "ok"]
    ELSE IF ~portOk THEN [pc |-> "returned", ret |-> "noport"]
    ELSE [pc |-> "try", ret |-> "none"]

MpConnectEnter ==
    /\ pc = "connect"
    /\ \E portOk \in BOOLEAN :
          /\ pc' = mpconnect_entry(isOpen, portOk).pc
          /\ ret' = mpconnect_entry(isOpen, portOk).ret
    /\ UNCHANGED <<workerKeeps, batchEnd, sameBurst, _q, isOpen, tries, trace, cycle, sleepLeft, opFailed>>

\* the for loop goes on after a failed attempt while fewer than
\* CONNECT_TRIES have been made
more_tries_off_by_one(n) == n <= CONNECT_TRIES
more_tries(n) == n < CONNECT_TRIES

\* one iteration of the for loop of _mpconnect: do_open, then __is_open()
MpConnectTry ==
    /\ pc = "try"
    /\ \E opened \in BOOLEAN :
          /\ isOpen' = opened
          /\ tries' = tries + 1
          /\ IF opened
             THEN pc' = "returned" /\ ret' = "ok"
             ELSE IF more_tries(tries + 1)
                  THEN pc' = "try" /\ ret' = ret
                  ELSE pc' = "returned" /\ ret' = "fail"
    /\ UNCHANGED <<workerKeeps, batchEnd, sameBurst, _q, trace, cycle, sleepLeft, opFailed>>

\* where run() goes when _mpconnect has returned r
after_connect_no_continue(r) == "drain"
after_connect_noport_fatal(r) ==
    IF r = "ok" THEN "drain" ELSE IF r = "noport" THEN "crashed" ELSE "backoff"
after_connect(r) == IF r = "ok" THEN "drain" ELSE "backoff"

\* if not self._mpconnect(): print, time.sleep(5), continue
RunAfterConnect ==
    /\ pc = "returned"
    /\ pc' = after_connect(ret)
    /\ cycle' = IF ret = "ok" THEN cycle + 1 ELSE cycle
    /\ sleepLeft' = IF after_connect(ret) = "backoff" THEN BACKOFF ELSE sleepLeft
    /\ ret' = "none"
    /\ tries' = 0
    /\ opFailed' = FALSE
    /\ batchEnd' = IF ret = "ok" THEN nextId - 1 ELSE batchEnd
    /\ UNCHANGED <<workerKeeps, sameBurst, _q, isOpen, trace>>

\* one iteration of "while not q.empty()": get, dispatch; an exception other
\* than queue.Empty ends the thread
\* where the drain loop goes after one dispatch: on to the next "while not
\* q.empty()" test, unless the handler raised
after_dispatch_one_item(raised) == IF raised THEN "crashed" ELSE "release"
after_dispatch(raised) == IF raised THEN "crashed" ELSE "drain"

RunDrain ==
    /\ pc = "drain"
    /\ IF _q = <<>>
       THEN /\ pc' = "release"
            /\ batchEnd' = 0
            /\ UNCHANGED <<_q, sameBurst, trace, opFailed>>
       ELSE \E kind \in FsKinds, ok1 \in BOOLEAN, ok2 \in BOOLEAN :
               LET got == q_get(_q)
                   r == dispatch(got.item, kind, ok1, ok2)
               IN  /\ _q' = got.rest
                   /\ sameBurst' = Tail(sameBurst)
                   /\ trace' = trace \o r.log
                   /\ opFailed' = (opFailed \/ r.failed)
                   /\ pc' = after_dispatch(r.raised)
                   /\ batchEnd' = IF pc' = "drain" THEN batchEnd ELSE 0
    /\ UNCHANGED <<workerKeeps, isOpen, tries, ret, cycle, sleepLeft>>

\* q.task_done(); self._mpdisconnect(); then time.sleep(0.1).  task_done is
\* called once per batch and every batch took at least one item, so it never
\* raises.  When the session still reports open after do_close, the print
\* raises NameError (p is not defined in _mpdisconnect).
RunRelease ==
    /\ pc = "release"
    /\ trace' = Append(trace, Entry("release", 0, "-"))
    /\ \E closed \in BOOLEAN :
          /\ isOpen' = (isOpen /\ ~closed)
          /\ pc' = IF isOpen' THEN "crashed" ELSE "sleep"
          /\ sleepLeft' = IF isOpen' THEN sleepLeft ELSE POLL
    /\ UNCHANGED <<workerKeeps, batchEnd, sameBurst, _q, tries, ret, cycle, opFailed>>

\* time.sleep returns: after the backoff "continue", after the poll sleep the
\* next iteration
Wake ==
    /\ pc \in {"sleep", "backoff"}
    /\ sleepLeft = 0
    /\ pc' = "loop"
    /\ UNCHANGED <<workerKeeps, batchEnd, sameBurst, _q, isOpen, tries, ret, trace, cycle, sleepLeft, opFailed>>

(* -------------------------------- time -------------------------------- *)
Tick ==
    /\ mpc \in {"syncing", "stopped"}
    /\ idle' = IF idle < IdleCap THEN idle + 1 ELSE IdleCap
    /\ burstOpen' = FALSE
    /\ sleepLeft' = IF sleepLeft > 0 THEN sleepLeft - 1 ELSE 0
    /\ UNCHANGED <<mpc, watching, wpc, _running, _q, pc, isOpen, tries, ret,
                   trace, cycle, nextId, sameBurst, batchEnd, inFlightAtStop, opFailed, folderOk, pathVars>>

Next ==
    \/ Construct
    \/ start_sync
    \/ stop_sync
    \/ _on_created
    \/ _on_deleted
    \/ _on_moved
    \/ _on_modified
    \/ StampTs
    \/ RunLoop
    \/ RunCheckQueue
    \/ MpConnectEnter
    \/ MpConnectTry
    \/ RunAfterConnect
    \/ RunDrain
    \/ RunRelease
    \/ Wake
    \/ Tick

Spec == Init /\ [][Next]_vars

(* ------------------- path translation on its own ---------------------- *)
\* sequences over Chars of length lo..hi
RECURSIVE Strings(_, _)
Strings(lo, hi) ==
    IF hi = 0 THEN {<<>>}
    ELSE LET shorter == Strings(0, hi - 1)
             longest == {Append(t, c) : t \in {u \in shorter : Len(u) = hi - 1},
                                        c \in Chars}
         IN  {t \in shorter \cup longest : Len(t) >= lo}

\* a path as the filesystem gives it: no empty component, no trailing "/"
WellFormed(s) ==
    /\ s # <<>>
    /\ s[Len(s)] # "/"
    /\ \A i \in 1..(Len(s) - 1) : ~(s[i] = "/" /\ s[i + 1] = "/")

\* the watched root, relative ("r") or absolute ("/r")
Roots == {t \in Strings(1, MaxRootLen) : WellFormed(t)}
\* what follows the root in the path of an event below it: "/" and a name
Suffixes == {t \in Strings(2, MaxSuffixLen) : WellFormed(t) /\ t[1] = "/"}

PathInit ==
    /\ mpc = "new"
    /\ watching = FALSE
    /\ wpc = "idle"
    /\ _running = FALSE
    /\ _q = <<>>
    /\ idle = IdleCap
    /\ pc = "unstarted"
    /\ sleepLeft = 0
    /\ isOpen = FALSE
    /\ tries = 0
    /\ ret = "none"
    /\ trace = <<>>
    /\ opFailed = FALSE
    /\ cycle = 0
    /\ nextId = 1
    /\ burstOpen = FALSE
    /\ sameBurst = <<>>
    /\ batchEnd = 0
    /\ inFlightAtStop = FALSE
    /\ folderOk = TRUE
    /\ folder \in Roots
    /\ file \in {folder \o t : t \in Suffixes}
    /\ dst = <<>>
    /\ rop = "none"

\* dst = x.replace(self.folder, ""), then the mpfs call on dst
RemoteCall(op) ==
    /\ rop = "none"
    /\ dst' = translate(folder, file)
    /\ rop' = op
    /\ UNCHANGED <<mainVars, folder, file>>

PathCopyFile == RemoteCall("put")
PathCreateFolder == RemoteCall("mkdir")
PathDelete == RemoteCall("rm")

PathNext ==
    \/ PathCopyFile
    \/ PathCreateFolder
    \/ PathDelete

SpecPath == PathInit /\ [][PathNext]_vars

(* ------------------------ _mpconnect on its own ----------------------- *)
\* _mpconnect called as run() calls it (queue not empty), on a session in
\* either state.  run() itself only ever calls it on a closed session: the
\* one way a session stays open after a batch ends the thread.  Any other
\* caller of the method, or of self.mpfs, can present it an open one.
QueuesOf(n) ==
    {qu \in [1..n -> [id : 1..n, action : Actions]] :
        \A i \in 1..n : qu[i].id = i}

ConnectInit ==
    /\ mpc = "syncing"
    /\ watching = TRUE
    /\ wpc = "idle"
    /\ _running = TRUE
    /\ \E n \in 1..MaxEvents :
          /\ _q \in QueuesOf(n)
          /\ nextId = n + 1
          /\ sameBurst = [i \in 1..n |-> FALSE]
    /\ idle = IdleCap
    /\ pc = "connect"
    /\ sleepLeft = 0
    /\ isOpen \in BOOLEAN
    /\ tries = 0
    /\ ret = "none"
    /\ trace = <<>>
    /\ opFailed = FALSE
    /\ cycle = 0
    /\ burstOpen = FALSE
    /\ batchEnd = 0
    /\ inFlightAtStop = FALSE
    /\ folderOk = TRUE
    /\ PathIdle

ConnectNext ==
    \/ MpConnectEnter
    \/ MpConnectTry

SpecConnect == ConnectInit /\ [][ConnectNext]_vars

(* ============================== claims ================================ *)
IsPrefix(s, t) == Len(s) <= Len(t) /\ SubSeq(t, 1, Len(s)) = s

\* positions of trace holding remote calls, handler calls, release calls
OpIdx == {i \in DOMAIN trace : trace[i].what \in RemoteOps}
HandlerIdx == {i \in DOMAIN trace : trace[i].what \in Handlers}
ReleaseIdx == {i \in DOMAIN trace : trace[i].what = "release"}
QueuedIds == {_q[i].id : i \in DOMAIN _q}

\* C1: all events of one burst are dispatched in one connect/disconnect
\* cycle, whatever the interleaving of the callbacks and the worker.  (A
\* burst is taken narrowly here: events enqueued with no time at all between
\* them, which are within one quiet period of each other.  Events are
\* dispatched in the order of their ids, so a burst is split exactly when an
\* event of it is dispatched in another cycle than the event before it.)
C1_OneCyclePerBurst ==
    [][(pc = "drain" /\ trace' # trace /\ Head(sameBurst))
          => \E i \in HandlerIdx :
                trace[i].ev = Head(_q).id - 1 /\ trace[i].cyc = cycle]_vars

\* C2: remote operations are issued in the order in which their events were
\* enqueued (event ids are given in enqueue order).
C2_FifoOrder ==
    \A i \in OpIdx, j \in OpIdx : i < j => trace[i].ev <= trace[j].ev

C2_Witness ==
    \E i \in OpIdx, j \in OpIdx : i < j /\ trace[i].ev < trace[j].ev

\* C3 as stated: at most CONNECT_TRIES attempts, success right after the
\* first attempt that opens the session, and failure only after exactly
\* CONNECT_TRIES failed attempts.
C3_FailureOnlyAfterAllTries ==
    /\ tries <= CONNECT_TRIES
    /\ pc = "try" => ~isOpen
    /\ (pc = "returned" /\ ret = "ok") => isOpen
    /\ (pc = "returned" /\ ret # "ok") => (tries = CONNECT_TRIES /\ ~isOpen)

\* C3 as amended: at most CONNECT_TRIES attempts; success right after the
\* first attempt that opens the session; failure either after exactly
\* CONNECT_TRIES failed attempts or, when the port path does not exist or is
\* a directory, without any attempt.
C3_BoundedTries ==
    /\ tries <= CONNECT_TRIES
    /\ pc = "try" => ~isOpen
    /\ (pc = "returned" /\ ret = "ok") => isOpen
    /\ (pc = "returned" /\ ret = "fail") => (tries = CONNECT_TRIES /\ ~isOpen)
    /\ (pc = "returned" /\ ret = "noport") => (tries = 0 /\ ~isOpen)

C3_Witness == pc = "returned" /\ ret = "fail" /\ tries = CONNECT_TRIES

\* _mpconnect is running, or has failed and the worker has not yet gone
\* back to the top of the loop
AcquiringOrFailed ==
    \/ pc \in {"connect", "try", "backoff"}
    \/ pc = "returned" /\ ret # "ok"

\* C4: while _mpconnect runs and after it has failed, the worker issues no
\* remote operation and takes nothing from the queue (the queue only grows
\* at its tail), the loop does not end, and the worker goes back to the top
\* of the loop, from where it calls _mpconnect again, only when the backoff
\* sleep is over.
C4_FailedAcquireKeepsQueue ==
    [][AcquiringOrFailed =>
          /\ IsPrefix(_q, _q')
          /\ trace' = trace
          /\ pc' \in {"connect", "try", "returned", "backoff", "loop"}
          /\ (pc = "returned" => pc' \in {"returned", "backoff"})
          /\ (pc' = "loop" => pc = "backoff" /\ sleepLeft = 0)]_vars

C4_Witness ==
    /\ pc = "backoff"
    /\ sleepLeft = 0
    /\ Len(_q) = 2
    /\ trace = <<>>

\* cycle c is over: a later one has begun, or the worker has left the drain
CycleOver(c) == c < cycle \/ pc \notin {"drain", "release"}

\* C5: every cycle that is over has exactly one release, which comes after
\* every remote operation of the cycle; remote operations are issued only
\* inside a cycle; and in the idle polling states the session is not open.
C5_Bracketed ==
    /\ \A c \in 1..cycle :
          /\ CycleOver(c) => Cardinality({i \in ReleaseIdx : trace[i].cyc = c}) = 1
          /\ \A i \in OpIdx, j \in ReleaseIdx :
                (trace[i].cyc = c /\ trace[j].cyc = c) => i < j
    /\ \A i \in OpIdx : trace[i].cyc >= 1
    /\ pc \in {"loop", "empty", "sleep"} => ~isOpen

\* C6: a move whose destination is a directory makes no remote call, prints
\* "not supported" exactly once, is not put back in the queue, and the
\* drain goes on.
C6_DirMoveIsNoOp ==
    \A i \in HandlerIdx :
        (trace[i].what = "perform_move" /\ trace[i].kind = "dir") =>
            /\ \A j \in OpIdx : trace[j].ev # trace[i].ev
            /\ Cardinality({j \in DOMAIN trace :
                                /\ trace[j].what = "unsupported"
                                /\ trace[j].ev = trace[i].ev}) = 1
            /\ trace[i].ev \notin QueuedIds
            /\ (i + 1 = Len(trace) => pc \in {"drain", "release"})

C6_Witness ==
    \E i \in HandlerIdx, j \in HandlerIdx :
        /\ trace[i].what = "perform_move"
        /\ trace[i].kind = "dir"
        /\ i < j
        /\ trace[j].cyc = trace[i].cyc

\* C7: the remote path is the local path with only its leading root prefix
\* removed.
C7_PrefixOnly ==
    rop # "none" => dst = SubSeq(file, Len(folder) + 1, Len(file))

\* C8: once a remote call of a batch has reported failure, the batch still
\* runs to its end: the worker does not stop before release is called.
C8_FailureDoesNotAbort ==
    (opFailed /\ pc \in {"crashed", "done"}) =>
        \E i \in ReleaseIdx : trace[i].cyc = cycle

\* C9: every enqueued event is either still in the queue, once, or was
\* popped and handed to exactly one handler, once; never both, never
\* neither.  The queue keeps the events in the order they were enqueued.
C9_ConsumedAtMostOnce ==
    /\ \A id \in 1..(nextId - 1) :
          Cardinality({i \in DOMAIN _q : _q[i].id = id})
              + Cardinality({i \in HandlerIdx : trace[i].ev = id}) = 1
    /\ \A i \in DOMAIN _q, j \in DOMAIN _q : i < j => _q[i].id < _q[j].id

C9_Witness ==
    /\ Len(_q) >= 1
    /\ HandlerIdx # {}

\* C10: a batch that is in flight when stop_sync is called is drained to
\* its end and followed by release before the worker ends.
C10_InFlightBatchCompletes ==
    (inFlightAtStop /\ pc \in {"crashed", "done"}) =>
        \E i \in ReleaseIdx : trace[i].cyc = cycle

\* C11: when the folder given to MPSync does not exist or is not a
\* directory, construction ends the process (sys.exit(1)) before the watcher
\* is created or started and before the worker loop runs: no event is ever
\* enqueued, no connection is ever attempted, nothing is ever dispatched.
C11_BadFolderExitsBeforeAnything ==
    (~folderOk /\ mpc # "new") =>
        /\ mpc = "exited"
        /\ ~watching
        /\ wpc = "idle"
        /\ ~_running
        /\ pc = "unstarted"
        /\ _q = <<>>
        /\ nextId = 1
        /\ tries = 0
        /\ ret = "none"
        /\ ~isOpen
        /\ cycle = 0
        /\ trace = <<>>

C11_Witness == ~folderOk /\ mpc = "exited"

\* the remote calls made for event ev
OpsFor(ev) == {i \in OpIdx : trace[i].ev = ev}

\* C12: a Create event issues exactly one remote operation, chosen by the
\* kind of the path: a put when it is a regular file, a mkdir when it is a
\* directory; the worker then goes on with the batch.
C12_CreateOneOpByKind ==
    \A i \in HandlerIdx :
        (trace[i].what = "perform_create" /\ trace[i].kind \in {"file", "dir"})
            => /\ OpsFor(trace[i].ev) = {i + 1}
               /\ trace[i + 1].what = IF trace[i].kind = "file" THEN "put" ELSE "mkdir"
               /\ (i + 1 = Len(trace) => pc \in {"drain", "release"})

\* C13: when _mpdisconnect has closed and the session still reports open,
\* that is a warning only: the worker does not raise or stop, it goes back
\* to polling and attempts the next batch normally.
C13_StillOpenAfterCloseIsNonFatal ==
    (trace # <<>> /\ trace[Len(trace)].what = "release" /\ isOpen)
        => pc # "crashed"

\* C14 as stated: the batch of a cycle is exactly the events that were
\* queued when its drain began; an event enqueued while the drain loop is
\* running is not dispatched by that drain.
C14_BatchIsQueueAtCycleStart ==
    pc = "drain" =>
        \A i \in HandlerIdx : trace[i].cyc = cycle => trace[i].ev <= batchEnd

\* C14 as amended: the drain loop runs until it finds the queue empty; it
\* ends (other than by an exception) only with nothing left queued, so
\* events enqueued while it runs are dispatched by that same drain.
C14_DrainRunsUntilEmpty ==
    [][(pc = "drain" /\ pc' # "drain")
          => \/ pc' = "crashed"
             \/ pc' = "release" /\ _q = <<>> /\ _q' = <<>>]_vars

\* the running drain has dispatched an event enqueued after it began
C14_Witness ==
    /\ pc = "drain"
    /\ \E i \in HandlerIdx : trace[i].cyc = cycle /\ trace[i].ev > batchEnd

\* C15: at the step where the worker decides to begin a drain cycle (it has
\* passed the gate and found the queue non-empty), the queue is non-empty
\* and more than WAITING_TIME has passed since the most recently enqueued
\* event; in particular some time has passed since the last q.put.
C15_GateOpensAfterQuietPeriod ==
    [][(pc = "empty" /\ pc' = "connect") => (_q # <<>> /\ ~burstOpen)]_vars

\* C16: nothing that happens to a batch stops the sync loop: whatever the
\* events and the outcomes of the filesystem checks, the connect attempts
\* and the remote calls, the worker never ends by an exception, and it leaves
\* the loop only after the stop signal.
C16_LoopRunsUntilStop ==
    /\ pc # "crashed"
    /\ pc = "done" => ~_running

\* C17: a Move event whose destination is a regular file issues exactly two
\* remote operations, in this order: rm of the old path (src_path), then put
\* of the new path (dest_path).
C17_MoveIsRmThenPut ==
    \A i \in HandlerIdx :
        (trace[i].what = "perform_move" /\ trace[i].kind = "file") =>
            /\ OpsFor(trace[i].ev) = {i + 1, i + 2}
            /\ trace[i + 1].what = "rm" /\ trace[i + 1].kind = "src_path"
            /\ trace[i + 2].what = "put" /\ trace[i + 2].kind = "dest_path"

C17_Witness ==
    \E i \in HandlerIdx :
        /\ trace[i].what = "perform_move"
        /\ trace[i].kind = "file"
        /\ i + 2 \in OpIdx

\* C18: a Modify event issues exactly one put when its path is a regular
\* file, and no remote operation at all when the path is missing or is not
\* a file; in that case the event is dropped (not queued again) and the
\* worker goes on with the batch.
C18_ModifyPutsFilesOnly ==
    \A i \in HandlerIdx :
        trace[i].what = "perform_modify" =>
            IF trace[i].kind = "file"
            THEN /\ OpsFor(trace[i].ev) = {i + 1}
                 /\ trace[i + 1].what = "put"
            ELSE /\ OpsFor(trace[i].ev) = {}
                 /\ trace[i].ev \notin QueuedIds
                 /\ (i = Len(trace) => pc \in {"drain", "release"})

\* a skipped Modify was followed by the next event of the same batch
C18_Witness ==
    \E i \in HandlerIdx, j \in HandlerIdx :
        /\ trace[i].what = "perform_modify"
        /\ trace[i].kind # "file"
        /\ i < j
        /\ trace[j].cyc = trace[i].cyc

\* C19: _mpconnect is idempotent on an open session: called when the session
\* is already open it returns success without any open attempt and whatever
\* the state of the device address, and leaves the session (and the queue)
\* as they were.
C19_ConnectOnOpenSessionIsNoOp ==
    [][(pc = "connect" /\ isOpen)
          => /\ pc' = "returned"
             /\ ret' = "ok"
             /\ tries' = 0
             /\ isOpen'
             /\ UNCHANGED <<_q, trace, cycle>>]_vars

C19_Witness == pc = "returned" /\ ret = "ok" /\ tries = 0 /\ isOpen

====
